---- MODULE Spec2Model ----
(***************************************************************************)
(* Relationship-based access control for the PetVideosApp sample.          *)
(*                                                                         *)
(* The API Lambda (avp-rebac-apilambda) answers ViewDirectory / ViewVideo  *)
(* requests.  It looks the named resource up in the Neptune property graph *)
(* (database.py), turns the looked-up record into an entity block          *)
(* (permissions.py), asks Amazon Verified Permissions for a decision under *)
(* the two Cedar policies the bootstrap Lambda creates, and maps the       *)
(* verdict to an HTTP response (main.py).                                  *)
(*                                                                         *)
(* The graph is a shared store: other actors add OWNER and MEMBEROF edges, *)
(* publish resources and drop vertices.  They are modelled by the Graph*   *)
(* actions, which interleave with the handler right before each of its two *)
(* reads of the store.                                                     *)
(***************************************************************************)
EXTENDS Integers, Sequences, FiniteSets, TLC

(***************************************************************************)
(* Bounds of the model.                                                    *)
(***************************************************************************)
\* number of edits other actors make to the bootstrapped graph
MaxEdits == 2

\* hops followed of a traversal that is past MaxDepth and still walking
ExtraHops == 1

(***************************************************************************)
(* The sample topology of the bootstrap Lambda.                            *)
(***************************************************************************)
Users == {"alice", "bob", "charlie"}

\* the root marker of every until(has('name', 'petVideosDirectory'))
petVideosDirectory == "petVideosDirectory"

Directories == {petVideosDirectory, "aliceVideosDirectory", "bobVideosDirectory"}

Videos == {"aliceCatVideo.mp4", "bobDogVideo.mp4"}

Resources == Directories \cup Videos

\* names a request may carry that no vertex has
NoSuchDirectory == "noSuchDirectory"
NoSuchVideo == "noSuchVideo"

\* Python's None, for a request field that is absent and for a failed lookup
None == "None"

\* uuid4 identifiers of the vertices, avp_username_id of the users
directoryId(name) == <<"directoryId", name>>
videoId(name) == <<"videoId", name>>
userId(u) == <<"user_pool_id", u>>

BootstrapOwner ==
    { <<"charlie", petVideosDirectory>>,
      <<"alice", "aliceVideosDirectory">>,
      <<"bob", "bobVideosDirectory">>,
      <<"alice", "aliceCatVideo.mp4">>,
      <<"bob", "bobDogVideo.mp4">> }

BootstrapMemberOf ==
    { <<"aliceVideosDirectory", petVideosDirectory>>,
      <<"bobVideosDirectory", petVideosDirectory>>,
      <<"aliceCatVideo.mp4", "aliceVideosDirectory">>,
      <<"bobDogVideo.mp4", "bobVideosDirectory">> }

VARIABLES
    vertices,      \* directory and video vertices in the graph, by name
    OWNER,         \* OWNER edges <<user, resource>>
    MEMBEROF,      \* MEMBEROF edges <<resource, directory>>
    isPublic,      \* isPublic property of each resource vertex
    edits,         \* edits other actors have made so far
    pc,            \* position of the handler
    event,         \* the request being handled
    video_dir,     \* handler local of the same name
    video,         \* handler local of the same name
    avp_calls,     \* decision requests issued for the current request
    avp_args,      \* arguments of the last decision request
    avp_resp,      \* what the decision engine answered
    lookups,       \* hierarchy resolutions run for the current request
    stages,        \* stages the current request has passed
    store_failed,  \* a graph-store query of the current request failed
    hops,          \* MEMBEROF hops of a traversal that has not returned
    raised,        \* exception that left the handler uncaught
    response       \* value returned by the handler

graph == <<vertices, OWNER, MEMBEROF, isPublic, edits>>
locals == <<event, video_dir, video, avp_calls, avp_args, avp_resp, lookups,
            stages, store_failed, hops, raised, response>>
vars == <<vertices, OWNER, MEMBEROF, isPublic, edits, pc, event, video_dir,
          video, avp_calls, avp_args, avp_resp, lookups, stages, store_failed,
          hops, raised, response>>

(***************************************************************************)
(* database.py: the Gremlin traversals.                                    *)
(***************************************************************************)
\* a walk that has left the start vertex and not yet met the root marker
\* after this many hops has revisited a vertex and never ends
MaxDepth == Cardinality(Resources)

\* __.out('MEMBEROF') from a set of traversers
out_MEMBEROF(F) == { e[2] : e \in { m \in MEMBEROF : m[1] \in F } }

\* __.in_('OWNER') from a set of traversers
in_OWNER(F) == { e[1] : e \in { o \in OWNER : o[2] \in F } }

\* __.repeat(__.out('MEMBEROF')).until(__.has('name', 'petVideosDirectory')):
\* each round moves every traverser one MEMBEROF hop; a traverser leaves the
\* loop (is emitted) only when it stands on the root marker, the others go
\* round again; the step returns when no traverser is left in the loop.
RECURSIVE repeat_until(_, _, _)
repeat_until(F, n, emitted) ==
    LET next == out_MEMBEROF(F)
        leave == { v \in next : v = petVideosDirectory }
        again == next \ leave
    IN  IF again = {}
        THEN [returns |-> TRUE, emitted |-> emitted \cup leave, hops |-> n + 1]
        ELSE IF n + 1 >= MaxDepth
             THEN [returns |-> FALSE, emitted |-> emitted \cup leave, hops |-> n + 1]
             ELSE repeat_until(again, n + 1, emitted \cup leave)

\* the order in which the store hands out directory vertices
DirectoryOrder == <<"aliceVideosDirectory", "bobVideosDirectory", petVideosDirectory>>

InOrder(S) == SelectSeq(DirectoryOrder, LAMBDA d : d \in S)

Range(s) == { s[i] : i \in DOMAIN s }

\* union(__.in_('OWNER'), __.repeat(...).until(...).in_('OWNER')).dedup().values('userId')
owner_id(r) ==
    { userId(u) : u \in in_OWNER({r}) \cup in_OWNER(repeat_until({r}, 0, {}).emitted) }

\* union(__.out('MEMBEROF'), __.repeat(...).until(...)).dedup().values('directoryId')
parents_id(r) ==
    LET first == InOrder(out_MEMBEROF({r}))
        rest == InOrder(repeat_until({r}, 0, {}).emitted \ Range(first))
    IN  [i \in 1..(Len(first) + Len(rest)) |->
            directoryId(IF i <= Len(first) THEN first[i] ELSE rest[i - Len(first)])]

\* the traversals of a lookup return
traversal_returns(r) == repeat_until({r}, 0, {}).returns

query_directory_info(directory_name) ==
    IF directory_name \notin vertices \cap Directories
    THEN [tag |-> None]
    ELSE [tag |-> "Directory",
          directory_id |-> directoryId(directory_name),
          directory_name |-> directory_name,
          owner_id |-> owner_id(directory_name),
          parents_id |-> parents_id(directory_name),
          isPublic |-> isPublic[directory_name]]

query_video_info(video_name) ==
    IF video_name \notin vertices \cap Videos
    THEN [tag |-> None]
    ELSE [tag |-> "Video",
          video_id |-> videoId(video_name),
          video_name |-> video_name,
          owner_id |-> owner_id(video_name),
          parents_id |-> parents_id(video_name),
          isPublic |-> isPublic[video_name]]

(***************************************************************************)
(* permissions.py: the decision request.                                   *)
(***************************************************************************)
entity(entity_type, entity_id) == [entityType |-> entity_type, entityId |-> entity_id]

entity_set(entity_type, entity_ids) == { entity(entity_type, i) : i \in entity_ids }

entity_list(entity_type, entity_ids) ==
    [i \in DOMAIN entity_ids |-> entity(entity_type, entity_ids[i])]

\* resource_entity = entity("Application", "PetVideosApp"), sent when the
\* looked-up record is None
Placeholder == entity("Application", <<"PetVideosApp">>)

NoEntities == <<>>

\* permissions_check_token_directory, were args["resource"] left at its default
permissions_check_token_directory_default_resource(token, action, dir) ==
    IF dir.tag = None
    THEN [identityToken |-> token, action |-> action, resource |-> Placeholder,
          entities |-> NoEntities]
    ELSE [identityToken |-> token, action |-> action,
          resource |-> Placeholder,
          entities |-> << [identifier |-> entity("Directory", dir.directory_id),
                           owner |-> entity_set("User", dir.owner_id),
                           isPublic |-> dir.isPublic,
                           parents |-> entity_list("Directory", dir.parents_id)] >>]

permissions_check_token_directory(token, action, dir) ==
    IF dir.tag = None
    THEN [identityToken |-> token, action |-> action, resource |-> Placeholder,
          entities |-> NoEntities]
    ELSE [identityToken |-> token, action |-> action,
          resource |-> entity("Directory", dir.directory_id),
          entities |-> << [identifier |-> entity("Directory", dir.directory_id),
                           owner |-> entity_set("User", dir.owner_id),
                           isPublic |-> dir.isPublic,
                           parents |-> entity_list("Directory", dir.parents_id)] >>]

permissions_check_token_video(token, action, vid) ==
    IF vid.tag = None
    THEN [identityToken |-> token, action |-> action, resource |-> Placeholder,
          entities |-> NoEntities]
    ELSE [identityToken |-> token, action |-> action,
          resource |-> entity("Video", vid.video_id),
          entities |-> << [identifier |-> entity("Video", vid.video_id),
                           owner |-> entity_set("User", vid.owner_id),
                           isPublic |-> vid.isPublic,
                           parents |-> entity_list("Directory", vid.parents_id)] >>]

(***************************************************************************)
(* The policy store: the schema's action groups and the two permit         *)
(* policies of the bootstrap Lambda, evaluated as Cedar evaluates them.    *)
(***************************************************************************)
OwnerActions == {"ViewDirectory", "ViewVideo"}

PublicActions == {"ViewDirectory", "ViewVideo"}

OwnerPolicyId == "owner-policy"

PublicPolicyId == "public-policy"

\* resource in PetVideosApp::Directory::"<petVideosDir_id>": the resource is
\* that directory, or the entities of the request list it among the parents
ResourceInRoot(args) ==
    LET root == entity("Directory", directoryId(petVideosDirectory))
    IN  \/ args.resource = root
        \/ \E i \in DOMAIN args.entities :
              /\ args.entities[i].identifier = args.resource
              /\ root \in Range(args.entities[i].parents)

\* OwnerPolicy, were its when clause left out
OwnerPolicyUnconditional(args) ==
    /\ args.action \in {"ViewDirectory", "ViewVideo"}
    /\ \E i \in DOMAIN args.entities :
          /\ args.entities[i].identifier = args.resource
          /\ [entityType |-> "Directory", entityId |-> directoryId(petVideosDirectory)]
                \in { args.entities[i].parents[j] : j \in DOMAIN args.entities[i].parents }

\* permit(principal, action in [OwnerActions], resource in root)
\*   when { resource has owner && principal in resource.owner };
OwnerPolicy(args) ==
    /\ args.action \in OwnerActions
    /\ ResourceInRoot(args)
    /\ \E i \in DOMAIN args.entities :
          /\ args.entities[i].identifier = args.resource
          /\ entity("User", userId(args.identityToken)) \in args.entities[i].owner

\* permit(principal, action in [PublicActions], resource in root)
\*   when { resource has isPublic && resource.isPublic == true };
PublicPolicy(args) ==
    /\ args.action \in PublicActions
    /\ ResourceInRoot(args)
    /\ \E i \in DOMAIN args.entities :
          /\ args.entities[i].identifier = args.resource
          /\ args.entities[i].isPublic = TRUE

\* avp.is_authorized_with_token(**args): ALLOW when a permit policy is
\* satisfied (there is no forbid policy), with the satisfied policies as the
\* determining policies; DENY with none otherwise
is_authorized_with_token(args) ==
    LET satisfied ==
            (IF OwnerPolicy(args) THEN <<[policyId |-> OwnerPolicyId]>> ELSE <<>>)
            \o (IF PublicPolicy(args) THEN <<[policyId |-> PublicPolicyId]>> ELSE <<>>)
    IN  [decision |-> IF satisfied # <<>> THEN "ALLOW" ELSE "DENY",
         determining_policies |-> satisfied]

(***************************************************************************)
(* main.py: the handler.                                                   *)
(***************************************************************************)
\* a local that no statement has assigned yet
Unbound == [tag |-> "unbound"]

NoEvent == [action |-> None, directoryName |-> None, videoName |-> None, id_token |-> None]

NoArgs == [identityToken |-> None, action |-> None, resource |-> Placeholder,
           entities |-> NoEntities]

NoDecision == [decision |-> None, determining_policies |-> <<>>]

\* format_response(body, status_code)
format_response(message, detail, status_code) ==
    [statusCode |-> status_code, message |-> message, detail |-> detail]

NoResponse == format_response("", "", 0)

AccessAllowed == "Access allowed -- determining policy id is"
AccessDenied == "Access denied -- permissions check failed"
AccessDeniedError == "Access denied -- permissions check failed -"

\* the name the two lookups of a request use: directoryName when the request
\* carries one, videoName otherwise
looks_up_directory(e) == e.directoryName # None
looks_up_video(e) == e.directoryName = None /\ e.videoName # None
looks_up(e) == looks_up_directory(e) \/ looks_up_video(e)

looked_up_name(e) == IF looks_up_directory(e) THEN e.directoryName ELSE e.videoName

lookup(e) ==
    IF looks_up_directory(e)
    THEN query_directory_info(e.directoryName)
    ELSE query_video_info(e.videoName)

\* store_failure, were the except clause of line 96 to catch every exception
store_failure_caught ==
    [raised |-> None,
     response |-> [statusCode |-> 401, message |-> "Access denied -- token broken",
                   detail |-> ""]]

\* a Gremlin query that fails raises out of both lookups: the first is in no
\* try block, the second in one that catches JWTError only
store_failure == [raised |-> "GremlinServerError", response |-> NoResponse]

\* avp_attempts, were a failed call tried again
avp_attempts_retry(engine_ok) == IF engine_ok THEN 1 ELSE 2

\* decision requests one call of permissions_check_token_* issues
avp_attempts(engine_ok) == 1

\* verdict_response, were the verdict compared with "Allow"
verdict_response_case(resp) ==
    IF resp.decision = "Allow"
    THEN format_response(AccessAllowed, resp.determining_policies[1].policyId, 200)
    ELSE format_response(AccessDenied, "", 401)

\* lines 103-107 and 114-118, with the IndexError of an empty
\* determining_policies caught by the except clause below them
verdict_response(resp) ==
    IF resp.decision = "ALLOW"
    THEN IF resp.determining_policies = <<>>
         THEN format_response(AccessDeniedError, "IndexError", 401)
         ELSE format_response(AccessAllowed, resp.determining_policies[1].policyId, 200)
    ELSE format_response(AccessDenied, "", 401)

Canonical ==
    <<"RESOLVE_ACTION", "VALIDATE_RESOURCE_EXISTS", "RESOLVE_HIERARCHY",
      "BUILD_ENTITY_CONTEXT", "EVALUATE_DECISION">>

Init ==
    /\ vertices = Resources
    /\ OWNER = BootstrapOwner
    /\ MEMBEROF = BootstrapMemberOf
    /\ isPublic = [r \in Resources |-> FALSE]
    /\ edits = 0
    /\ pc = "idle"
    /\ event = NoEvent
    /\ video_dir = Unbound
    /\ video = Unbound
    /\ avp_calls = 0
    /\ avp_args = NoArgs
    /\ avp_resp = NoDecision
    /\ lookups = 0
    /\ stages = <<>>
    /\ store_failed = FALSE
    /\ hops = 0
    /\ raised = None
    /\ response = NoResponse

\* lines 39-78: environment check, action of the route, principal of the
\* access token, names of the request
Receive ==
    /\ pc = "idle"
    /\ UNCHANGED <<graph, video_dir, video, avp_calls, avp_args, avp_resp, lookups,
                   store_failed, hops>>
    /\ \/ \* POLICY_STORE_ID is not set
          /\ event' = NoEvent
          /\ stages' = <<>>
          /\ raised' = None
          /\ response' = format_response("API Lambda environment variables not set", "", 500)
          /\ pc' = "done"
       \/ \* ACTIONS.get((resource, method), "Unknown")
          /\ event' = [NoEvent EXCEPT !.action = "Unknown"]
          /\ stages' = <<"RESOLVE_ACTION">>
          /\ raised' = None
          /\ response' = format_response("Unknown API call", "", 404)
          /\ pc' = "done"
       \/ \* jwt.decode raises an error of PyJWT, which is no jose JWTError
          \E action \in {"ViewDirectory", "ViewVideo"} :
             /\ event' = [NoEvent EXCEPT !.action = action]
             /\ stages' = <<"RESOLVE_ACTION">>
             /\ raised' = "DecodeError"
             /\ response' = NoResponse
             /\ pc' = "done"
       \/ \E action \in {"ViewDirectory", "ViewVideo"},
             directory_name \in Directories \cup {NoSuchDirectory, None},
             video_name \in Videos \cup {NoSuchVideo, None} :
             /\ event' = [action |-> action, directoryName |-> directory_name,
                          videoName |-> video_name, id_token |-> None]
             /\ stages' = <<"RESOLVE_ACTION">>
             /\ raised' = None
             /\ response' = NoResponse
             /\ pc' = "validate"

\* lines 80-90: the existence lookup, then the identity token
Validate ==
    /\ pc = "validate"
    /\ UNCHANGED <<graph, video_dir, video, avp_calls, avp_args, avp_resp>>
    /\ stages' = Append(stages, "VALIDATE_RESOURCE_EXISTS")
    /\ \E store_ok \in BOOLEAN, id_token \in Users \cup {None} :
          IF looks_up(event) /\ ~store_ok
          THEN /\ id_token = None
               /\ store_failed' = TRUE
               /\ raised' = store_failure.raised
               /\ response' = store_failure.response
               /\ pc' = "done"
               /\ UNCHANGED <<event, lookups, hops>>
          ELSE /\ store_ok
               /\ IF looks_up(event) /\ lookup(event).tag = None
                  THEN /\ id_token = None
                       /\ response' =
                            format_response(
                                IF looks_up_directory(event)
                                THEN "Invalid input -- directory doesn't exist"
                                ELSE "Invalid input -- video doesn't exist", "", 400)
                       /\ pc' = "done"
                       /\ UNCHANGED <<event, lookups, hops, store_failed, raised>>
                  ELSE IF looks_up(event) /\ ~traversal_returns(looked_up_name(event))
                  THEN /\ id_token = None
                       /\ lookups' = lookups + 1
                       /\ hops' = MaxDepth
                       /\ pc' = "traversing"
                       /\ UNCHANGED <<event, store_failed, raised, response>>
                  ELSE /\ lookups' = IF looks_up(event) THEN lookups + 1 ELSE lookups
                       /\ event' = [event EXCEPT !.id_token = id_token]
                       /\ IF id_token = None
                          THEN /\ response' =
                                    format_response(
                                        "Access denied -- no identity token provided", "", 401)
                               /\ pc' = "done"
                          ELSE /\ response' = response
                               /\ pc' = "lookup"
                       /\ UNCHANGED <<store_failed, raised, hops>>

\* lines 91-98: the second lookup, into video_dir or video
Lookup ==
    /\ pc = "lookup"
    /\ UNCHANGED <<graph, event, avp_calls, avp_args, avp_resp>>
    /\ stages' = Append(stages, "RESOLVE_HIERARCHY")
    /\ \E store_ok \in BOOLEAN :
          IF looks_up(event) /\ ~store_ok
          THEN /\ store_failed' = TRUE
               /\ raised' = store_failure.raised
               /\ response' = store_failure.response
               /\ pc' = "done"
               /\ UNCHANGED <<video_dir, video, lookups, hops>>
          ELSE /\ store_ok
               /\ IF /\ looks_up(event)
                     /\ lookup(event).tag # None
                     /\ ~traversal_returns(looked_up_name(event))
                  THEN /\ lookups' = lookups + 1
                       /\ hops' = MaxDepth
                       /\ pc' = "traversing"
                       /\ UNCHANGED <<video_dir, video>>
                  ELSE /\ lookups' = IF looks_up(event) /\ lookup(event).tag # None
                                     THEN lookups + 1 ELSE lookups
                       /\ video_dir' = IF looks_up_directory(event) THEN lookup(event)
                                       ELSE video_dir
                       /\ video' = IF looks_up_video(event) THEN lookup(event) ELSE video
                       /\ pc' = "evaluate"
                       /\ UNCHANGED hops
               /\ UNCHANGED <<store_failed, raised, response>>

\* the except Exception clauses of lines 108-109 and 119-120
\* the except Exception clauses, were they to answer 500
caught_500(e) == format_response(AccessDeniedError, e, 500)

caught(e) == format_response(AccessDeniedError, e, 401)

\* lines 100-120: the decision request and the answer
Evaluate ==
    /\ pc = "evaluate"
    /\ UNCHANGED <<graph, event, video_dir, video, lookups, store_failed, hops, raised>>
    /\ pc' = "done"
    /\ LET arg == IF event.action = "ViewDirectory" THEN video_dir ELSE video
           args == IF event.action = "ViewDirectory"
                   THEN permissions_check_token_directory(event.id_token, event.action, arg)
                   ELSE permissions_check_token_video(event.id_token, event.action, arg)
       IN  IF arg = Unbound
           THEN /\ response' = caught("UnboundLocalError")
                /\ UNCHANGED <<avp_calls, avp_args, avp_resp, stages>>
           ELSE \E engine_ok \in BOOLEAN :
                   /\ stages' = stages \o <<"BUILD_ENTITY_CONTEXT", "EVALUATE_DECISION">>
                   /\ avp_calls' = avp_calls + avp_attempts(engine_ok)
                   /\ avp_args' = args
                   /\ IF engine_ok
                      THEN /\ avp_resp' = is_authorized_with_token(args)
                           /\ response' = verdict_response(is_authorized_with_token(args))
                      ELSE /\ avp_resp' = [NoDecision EXCEPT !.decision = "ERROR"]
                           /\ response' = caught("ClientError")

\* a repeat() step that never meets its until() goes on hopping
Traverse ==
    /\ pc = "traversing"
    /\ hops < MaxDepth + ExtraHops
    /\ hops' = hops + 1
    /\ UNCHANGED <<graph, pc, event, video_dir, video, avp_calls, avp_args, avp_resp,
                   lookups, stages, store_failed, raised, response>>

(***************************************************************************)
(* Other actors on the graph store, with the Gremlin steps the bootstrap   *)
(* Lambda uses.                                                            *)
(***************************************************************************)
BeforeRead == pc \in {"validate", "lookup"} /\ edits < MaxEdits

\* g.V(user).addE('OWNER').to(resource)
GraphAddOwner ==
    /\ BeforeRead
    /\ \E u \in Users, r \in vertices :
          /\ <<u, r>> \notin OWNER
          /\ OWNER' = OWNER \cup {<<u, r>>}
    /\ edits' = edits + 1
    /\ UNCHANGED <<vertices, MEMBEROF, isPublic, pc, locals>>

\* g.V(resource).addE('MEMBEROF').to(directory)
GraphAddMemberOf ==
    /\ BeforeRead
    /\ \E r \in vertices, d \in vertices \cap Directories :
          /\ <<r, d>> \notin MEMBEROF
          /\ MEMBEROF' = MEMBEROF \cup {<<r, d>>}
    /\ edits' = edits + 1
    /\ UNCHANGED <<vertices, OWNER, isPublic, pc, locals>>

\* property('isPublic', True)
GraphSetPublic ==
    /\ BeforeRead
    /\ \E r \in vertices :
          /\ ~isPublic[r]
          /\ isPublic' = [isPublic EXCEPT ![r] = TRUE]
    /\ edits' = edits + 1
    /\ UNCHANGED <<vertices, OWNER, MEMBEROF, pc, locals>>

\* g.V(resource).drop(): the vertex goes with its properties and its edges
GraphDropVertex ==
    /\ BeforeRead
    /\ \E r \in vertices :
          /\ vertices' = vertices \ {r}
          /\ OWNER' = { o \in OWNER : o[2] # r }
          /\ MEMBEROF' = { m \in MEMBEROF : m[1] # r /\ m[2] # r }
          /\ isPublic' = [isPublic EXCEPT ![r] = FALSE]
    /\ edits' = edits + 1
    /\ UNCHANGED <<pc, locals>>

\* g.V(resource).outE('MEMBEROF').where(inV().is(directory)).drop(): the
\* resource is taken out of a directory
GraphDropMemberOf ==
    /\ BeforeRead
    /\ \E m \in MEMBEROF : MEMBEROF' = MEMBEROF \ {m}
    /\ edits' = edits + 1
    /\ UNCHANGED <<vertices, OWNER, isPublic, pc, locals>>

Next ==
    \/ Receive
    \/ Validate
    \/ Lookup
    \/ Evaluate
    \/ Traverse
    \/ GraphAddOwner
    \/ GraphAddMemberOf
    \/ GraphSetPublic
    \/ GraphDropVertex
    \/ GraphDropMemberOf

Spec == Init /\ [][Next]_vars

(***************************************************************************)
(* What the graph itself says, against which the handler is checked.       *)
(***************************************************************************)
\* the vertices on the MEMBEROF walks that start at r and end at the root
\* marker or where the edges end; the root marker itself has none
RECURSIVE WalkFrom(_, _)
WalkFrom(seen, k) ==
    LET more == seen \cup out_MEMBEROF(seen \ {petVideosDirectory})
    IN  IF k = 0 \/ more = seen THEN seen ELSE WalkFrom(more, k - 1)

Ancestors(r) ==
    IF r = petVideosDirectory THEN {} ELSE WalkFrom(out_MEMBEROF({r}), MaxDepth)

UnderRoot(r) == petVideosDirectory \in Ancestors(r)

\* every vertex MEMBEROF-reachable from r, the root marker not stopping the walk
RECURSIVE Reach(_, _)
Reach(seen, k) ==
    LET more == seen \cup out_MEMBEROF(seen)
    IN  IF k = 0 \/ more = seen THEN seen ELSE Reach(more, k - 1)

\* the MEMBEROF edges form a forest: at most one parent each, and no cycle
Forest ==
    \A r \in vertices :
        /\ Cardinality(out_MEMBEROF({r})) <= 1
        /\ r \notin Reach(out_MEMBEROF({r}), MaxDepth)

Owns(u, r) == <<u, r>> \in OWNER

OwnsAncestor(u, r) == \E a \in Ancestors(r) : Owns(u, a)

\* the request of the handler reached a verdict of the decision engine
Decided == pc = "done" /\ avp_resp.decision \in {"ALLOW", "DENY"}

\* the resource and the principal of the request
R == looked_up_name(event)
P == event.id_token

Allowed == response.statusCode = 200 /\ response.message = AccessAllowed

Denied == response = format_response(AccessDenied, "", 401)

\* the check of the view action that belongs to r, for principal u, on the
\* graph as it is
Check(u, r) ==
    is_authorized_with_token(
        IF r \in Directories
        THEN permissions_check_token_directory(u, "ViewDirectory", query_directory_info(r))
        ELSE permissions_check_token_video(u, "ViewVideo", query_video_info(r))).decision

\* C1: in a forest, whoever owns the resource or any of its ancestors, and
\* anyone when the resource is public, is answered 'Access allowed' for a
\* resource under petVideosDirectory.
C1_OwnerOrAncestorOwnerOrPublicAllowed ==
    (/\ Decided
     /\ Forest
     /\ R \in vertices
     /\ UnderRoot(R)
     /\ Owns(P, R) \/ OwnsAncestor(P, R) \/ isPublic[R])
    => Allowed

\* C2: a principal that owns neither a non-public resource nor any of its
\* ancestors is never answered 'Access allowed', and is answered 401 'Access
\* denied -- permissions check failed' when the decision engine gave a verdict.
C2_StrangerDenied ==
    (/\ pc = "done"
     /\ R \in vertices
     /\ ~isPublic[R]
     /\ ~Owns(P, R)
     /\ ~OwnsAncestor(P, R))
    => (~Allowed /\ (Decided => Denied))

C2_Witness ==
    /\ Decided
    /\ edits = 0
    /\ event.action = "ViewVideo"
    /\ R = "bobDogVideo.mp4"
    /\ P = "alice"
    /\ Denied

\* C3: in a forest, the owner_id a lookup returns is the set of the users with
\* an OWNER edge to the resource or to any of its ancestors up to the root.
C3_OwnerIdIsClosure ==
    \A local \in {video_dir, video} :
        (pc = "evaluate" /\ Forest /\ local.tag \in {"Directory", "Video"})
        => local.owner_id = { userId(u) : u \in in_OWNER({R} \cup Ancestors(R)) }

\* C4: a failed decision call is not answered with the 401 'Access denied'
\* response of a DENY verdict.
C4_EngineFailureIsNotDenied ==
    (pc = "done" /\ avp_resp.decision = "ERROR")
    => ~(response.statusCode = 401 /\ response.message \in {AccessDenied, AccessDeniedError})

\* C5: a request that names a directory or a video no vertex has is answered
\* 400 and no decision request is issued for it.
C5_MissingNameIsNotFound ==
    (/\ pc = "done"
     /\ ~store_failed
     /\ event.directoryName = NoSuchDirectory \/ event.videoName = NoSuchVideo)
    => (response.statusCode = 400 /\ avp_calls = 0)

\* C6: no traversal walks on past MaxDepth hops: on a MEMBEROF cycle the
\* lookup ends in a CycleDetected failure.
C6_WalkEndsOrCycleDetected ==
    hops > MaxDepth => raised = "CycleDetected"

\* C7: in a forest, an OWNER edge added from a principal to a resource under
\* petVideosDirectory or to one of its ancestors turns a DENY of that
\* principal on that resource into an ALLOW.
C7_AddedOwnerTurnsDenyIntoAllow ==
    [][\A u \in Users, r \in vertices :
          (/\ \E a \in {r} \cup Ancestors(r) : OWNER' = OWNER \cup {<<u, a>>}
           /\ UNCHANGED <<vertices, MEMBEROF, isPublic>>
           /\ Forest
           /\ UnderRoot(r)
           /\ Check(u, r) = "DENY")
          => Check(u, r)' = "ALLOW"]_vars

IsPrefix(s, t) == Len(s) <= Len(t) /\ \A i \in DOMAIN s : s[i] = t[i]

Outcomes == (IF response # NoResponse THEN 1 ELSE 0) + (IF raised # None THEN 1 ELSE 0)

\* C8 as stated: the stages are passed in order, each at most once, a run
\* stops in one outcome, and it resolves the hierarchy at most once and
\* issues at most one decision request.
C8_OnePassOneResolution ==
    /\ IsPrefix(stages, Canonical)
    /\ Outcomes = (IF pc = "done" THEN 1 ELSE 0)
    /\ avp_calls <= 1
    /\ lookups <= 1

\* C8 as amended: the stages are passed in order, each at most once, a run
\* stops in one outcome and issues at most one decision request; it resolves
\* the hierarchy of the resource up to twice, once in the existence lookup
\* and once in the lookup that follows it.
C8_OnePassTwoResolutions ==
    /\ IsPrefix(stages, Canonical)
    /\ Outcomes = (IF pc = "done" THEN 1 ELSE 0)
    /\ avp_calls <= 1
    /\ lookups <= 2

C8_Witness ==
    /\ pc = "done"
    /\ stages = Canonical
    /\ avp_calls = 1
    /\ lookups = 2

\* C9: a request that met a failed graph-store query issues no decision
\* request and ends in the store's error, which is neither the 401 of a DENY
\* nor the 400 of a resource that does not exist.
C9_StoreFailureIsNoDenyNoNotFound ==
    store_failed =>
        /\ pc = "done"
        /\ avp_calls = 0
        /\ raised = "GremlinServerError"
        /\ response.statusCode \notin {400, 401}

C9_Witness ==
    /\ store_failed
    /\ lookups = 1
    /\ stages = <<"RESOLVE_ACTION", "VALIDATE_RESOURCE_EXISTS", "RESOLVE_HIERARCHY">>

RECURSIVE ChainFrom(_, _)
ChainFrom(r, k) ==
    IF r = petVideosDirectory \/ out_MEMBEROF({r}) = {} \/ k = 0
    THEN <<>>
    ELSE LET parent == CHOOSE d \in out_MEMBEROF({r}) : TRUE
         IN  <<parent>> \o ChainFrom(parent, k - 1)

Chain(r) == ChainFrom(r, MaxDepth)

\* a decision request about the resource of the request has been sent
Sent == pc = "done" /\ avp_calls >= 1

\* C11: in a forest whose root marker has no parent, for the root marker and
\* every resource under it, the 'parents' of the entity sent to the decision
\* engine are the ancestors of the resource, one PetVideosApp::Directory identifier
\* each, from the parent of the resource to the root, none missing or repeated.
C11_ParentsAreTheChain ==
    (/\ Sent
     /\ Forest
     /\ out_MEMBEROF({petVideosDirectory}) = {}
     /\ R \in vertices
     /\ R = petVideosDirectory \/ UnderRoot(R))
    => /\ avp_args.entities # NoEntities
       /\ avp_args.entities[1].parents =
             [i \in DOMAIN Chain(R) |-> entity("Directory", directoryId(Chain(R)[i]))]

\* the resource, or a vertex its walk to the root marker passes, is a member
\* of more than one directory
Branching(r) ==
    \E v \in ({r} \cup Ancestors(r)) \ {petVideosDirectory} :
        Cardinality(out_MEMBEROF({v})) > 1

\* C12: a lookup that meets a vertex with more than one outgoing MEMBEROF edge
\* fails with MalformedHierarchy: it hands no record to the handler and no
\* decision request is built from it.
C12_BranchingIsMalformedHierarchy ==
    (/\ pc \in {"evaluate", "done"}
     /\ P # None
     /\ ~store_failed
     /\ R \in vertices
     /\ Branching(R))
    => /\ raised = "MalformedHierarchy"
       /\ video_dir.tag \notin {"Directory", "Video"}
       /\ video.tag \notin {"Directory", "Video"}
       /\ avp_calls = 0

\* the handler has come to its existence check and the graph store has
\* answered it, and the request carries no id-token header
NoIdToken ==
    pc = "done" /\ Len(stages) >= 2 /\ ~store_failed /\ event.id_token = None

\* the existence check has sent its query to the graph store
Queried == Len(stages) >= 2 /\ looks_up(event)

\* C13: a request without an id-token is answered 401 before anything else
\* is done for it: no query to the graph store, no decision request, and
\* never the 400 of a resource that does not exist.
C13_NoIdTokenRejectedFirst ==
    NoIdToken
    => /\ response.statusCode = 401
       /\ ~Queried
       /\ avp_calls = 0

\* the entity of the resource the request names
NamedEntity ==
    IF looks_up_directory(event)
    THEN entity("Directory", directoryId(R))
    ELSE entity("Video", videoId(R))

\* C14 as stated: every decision request carries an entities block and a
\* resource equal to the identifier of that block; the placeholder is never
\* sent.
C14_PlaceholderNeverSent ==
    Sent => /\ avp_args.entities # NoEntities
            /\ avp_args.resource = avp_args.entities[1].identifier
            /\ avp_args.resource # Placeholder

\* C14: a decision request for a resource that is in the graph carries one
\* entity describing it, and its resource is the identifier of that entity;
\* the placeholder request, with no entities, is sent exactly when another
\* actor has removed the resource after the existence lookup.
C14_PlaceholderOnlyAfterRemoval ==
    Sent => IF R \in vertices
            THEN /\ Len(avp_args.entities) = 1
                 /\ avp_args.entities[1].identifier = NamedEntity
                 /\ avp_args.resource = NamedEntity
            ELSE /\ avp_args.entities = NoEntities
                 /\ avp_args.resource = Placeholder
                 /\ edits >= 1

C14_Witness ==
    /\ Sent
    /\ R \notin vertices
    /\ avp_args.resource = Placeholder
    /\ lookups = 1

\* the request has come to the existence check, and the name it supplies is
\* none, or of the other kind than its action, or a directoryName on ViewVideo
Mismatch ==
    /\ Len(stages) >= 2
    /\ \/ event.action = "ViewDirectory" /\ event.directoryName = None
       \/ event.action = "ViewVideo" /\ event.directoryName # None
       \/ event.action = "ViewVideo" /\ event.videoName = None

\* C15 as stated: on a mismatch of action and name no decision request is
\* issued and the handler answers 401.
C15_MismatchIs401 ==
    (pc = "done" /\ Mismatch /\ ~store_failed)
    => /\ avp_calls = 0
       /\ response.statusCode = 401

\* C15: a decision request for ViewDirectory is issued only with a directory
\* lookup and for ViewVideo only with a video lookup; on a mismatch of action
\* and name no decision request is issued, and once the graph store has
\* answered, the handler answers 400 if the name it looked up is not in the
\* graph and 401 otherwise.
C15_MismatchIsNeverDecided ==
    /\ Mismatch => avp_calls = 0
    /\ Sent => \/ event.action = "ViewDirectory" /\ looks_up_directory(event)
               \/ event.action = "ViewVideo" /\ looks_up_video(event)
    /\ (pc = "done" /\ Mismatch /\ ~store_failed)
       => \/ response.statusCode = 401
          \/ /\ response.statusCode = 400
             /\ looks_up(event)
             /\ lookup(event).tag = None

C15_Witness ==
    /\ pc = "done"
    /\ Mismatch
    /\ event.id_token # None
    /\ looks_up(event)
    /\ response = caught("UnboundLocalError")

====
